---- MODULE Spec2Model ----
(***************************************************************************)
(* Model of modules/metadata_confidence.py: the field validator            *)
(* (validate_field_type, validate_against_template) and the confidence     *)
(* aggregator (enhance_confidence_with_template,                           *)
(* calculate_overall_confidence, format_confidence_results).               *)
(*                                                                         *)
(* Python values are records [k, s, n]: k is the runtime type, s the       *)
(* characters of a str (a sequence of one-character strings), n the number *)
(* of an int or bool.  A dict is a sequence of <<key, value>> pairs with   *)
(* distinct keys, in insertion order.  A call either returns or raises:    *)
(* the field exc of a call's outcome names the exception ("" for none).    *)
(***************************************************************************)
EXTENDS Integers, Sequences, FiniteSets, TLC

-----------------------------------------------------------------------------
(* Python values *)

PyNone == [k |-> "None", s |-> <<>>, n |-> 0]

PyStr(cs) == [k |-> "str", s |-> cs, n |-> 0]

PyInt(i) == [k |-> "int", s |-> <<>>, n |-> i]

PyBool(b) == [k |-> "bool", s |-> <<>>, n |-> IF b THEN 1 ELSE 0]

\* the int 2^53 + i, the first ints a float cannot tell apart; n holds i
PyBigInt(i) == [k |-> "bigint", s |-> <<>>, n |-> i]

\* the empty list [], a value no conversion accepts
PyList == [k |-> "list", s |-> <<>>, n |-> 0]

\* the marker of a key that a dict does not hold
Absent == [k |-> "absent", s |-> <<>>, n |-> 0]

\* value is None or value == ''
IsEmpty(value) == value.k = "None" \/ (value.k = "str" /\ value.s = <<>>)

\* bool(x) of a dict.get(key, False) result
Truthy(x) ==
  CASE x.k = "absent" -> FALSE
    [] x.k = "None" -> FALSE
    [] x.k = "str" -> x.s # <<>>
    [] x.k = "int" -> x.n # 0
    [] x.k = "bool" -> x.n # 0
    [] x.k = "bigint" -> TRUE
    [] OTHER -> FALSE

UpperLetters ==
  <<"A","B","C","D","E","F","G","H","I","J","K","L","M",
    "N","O","P","Q","R","S","T","U","V","W","X","Y","Z">>

LowerLetters ==
  <<"a","b","c","d","e","f","g","h","i","j","k","l","m",
    "n","o","p","q","r","s","t","u","v","w","x","y","z">>

LowerChar(c) ==
  IF \E i \in 1..26 : UpperLetters[i] = c
  THEN LowerLetters[CHOOSE i \in 1..26 : UpperLetters[i] = c]
  ELSE c

\* str.lower()
Lower(cs) == [i \in 1..Len(cs) |-> LowerChar(cs[i])]

Digits == <<"0","1","2","3","4","5","6","7","8","9">>

IsDigit(c) == \E i \in 1..10 : Digits[i] = c

DigitVal(c) == (CHOOSE i \in 1..10 : Digits[i] = c) - 1

RECURSIVE DigitsVal(_)
\* the number a non-empty run of decimal digits denotes
DigitsVal(cs) ==
  IF cs = <<>> THEN 0
  ELSE 10 * DigitsVal(SubSeq(cs, 1, Len(cs) - 1)) + DigitVal(cs[Len(cs)])

AllDigits(cs) == cs # <<>> /\ \A i \in 1..Len(cs) : IsDigit(cs[i])

RECURSIVE NatStr(_)
\* the decimal digits of a natural number
NatStr(i) ==
  IF i < 10 THEN <<Digits[i + 1]>>
  ELSE NatStr(i \div 10) \o <<Digits[(i % 10) + 1]>>

\* the decimal digits of 2^53
TwoTo53 == <<"9","0","0","7","1","9","9","2","5","4","7","4","0","9","9","2">>

RECURSIVE AddDigits(_, _)
\* the decimal digits of the number cs denotes plus the natural number i
AddDigits(cs, i) ==
  IF i = 0 THEN cs
  ELSE IF cs = <<>> THEN NatStr(i)
  ELSE AddDigits(SubSeq(cs, 1, Len(cs) - 1), (DigitVal(cs[Len(cs)]) + i) \div 10)
         \o <<Digits[((DigitVal(cs[Len(cs)]) + i) % 10) + 1]>>

\* str(x)
Str(x) ==
  CASE x.k = "str" -> x.s
    [] x.k = "int" -> IF x.n < 0 THEN <<"-">> \o NatStr(0 - x.n) ELSE NatStr(x.n)
    [] x.k = "bigint" -> AddDigits(TwoTo53, x.n)
    [] x.k = "bool" -> IF x.n = 1 THEN <<"T","r","u","e">> ELSE <<"F","a","l","s","e">>
    [] x.k = "None" -> <<"N","o","n","e">>
    [] OTHER -> <<"[","]">>

\* the number n, or 2^53 + n when big
Num(big, n) == [exc |-> "", big |-> big, n |-> n]

\* the number an int or a bool is
NumOf(x) == Num(x.k = "bigint", x.n)

\* a < b for numbers; Python compares an int and a float by their exact values
Less(a, b) == IF a.big = b.big THEN a.n < b.n ELSE b.big

\* the float nearest 2^53 + i, as its distance from 2^53: from 2^53 to 2^54
\* the floats are the even integers, and a tie goes to the one whose
\* significand is even
RoundToFloat(i) ==
  IF i % 2 = 0 THEN i
  ELSE IF ((i - 1) \div 2) % 2 = 0 THEN i - 1
  ELSE i + 1

\* float(x): [exc, big, n].  An int within 2^53 and a bool convert exactly, an
\* int beyond 2^53 is rounded.  A str converts when it is an optionally signed
\* run of digits (the strings of this model hold no '.', exponent, '_' or
\* padding); None and a list raise TypeError, any other str ValueError.
Float(x) ==
  CASE x.k = "int" -> Num(FALSE, x.n)
    [] x.k = "bool" -> Num(FALSE, x.n)
    [] x.k = "bigint" -> Num(TRUE, RoundToFloat(x.n))
    [] x.k = "str" ->
         IF AllDigits(x.s) THEN Num(FALSE, DigitsVal(x.s))
         ELSE IF Len(x.s) > 1 /\ x.s[1] = "-" /\ AllDigits(Tail(x.s))
              THEN Num(FALSE, 0 - DigitsVal(Tail(x.s)))
         ELSE IF Len(x.s) > 1 /\ x.s[1] = "+" /\ AllDigits(Tail(x.s))
              THEN Num(FALSE, DigitsVal(Tail(x.s)))
         ELSE [exc |-> "ValueError", big |-> FALSE, n |-> 0]
    [] OTHER -> [exc |-> "TypeError", big |-> FALSE, n |-> 0]

\* whether x can stand on the right of num_value < x (int, float or bool)
IsNumber(x) == x.k \in {"int", "bool", "bigint"}

-----------------------------------------------------------------------------
(* datetime.strptime *)

\* the date formats tried, in order; a letter item is the directive %letter
date_formats ==
  << <<"%Y","-","%m","-","%d">>,
     <<"%m","/","%d","/","%Y">>,
     <<"%d","/","%m","/","%Y">>,
     <<"%Y","-","%m","-","%d","T","%H",":","%M",":","%S">>,
     <<"%Y","-","%m","-","%d"," ","%H",":","%M",":","%S">> >>

IsDirective(item) == item \in {"%Y", "%m", "%d", "%H", "%M", "%S"}

\* the widths a directive's digits may have
DirectiveWidths(item) == IF item = "%Y" THEN {4} ELSE {1, 2}

\* the values a directive accepts (its regular expression in _strptime)
DirectiveOk(item, digits) ==
  LET v == DigitsVal(digits) IN
  CASE item = "%Y" -> TRUE
    [] item = "%m" -> v \in 1..12
    [] item = "%d" -> v \in 1..31
    [] item = "%H" -> v \in 0..23 /\ (Len(digits) = 2 \/ v <= 9)
    [] item = "%M" -> v \in 0..59
    [] item = "%S" -> v \in 0..61
    [] OTHER -> FALSE

IsLeap(y) == (y % 4 = 0 /\ y % 100 # 0) \/ y % 400 = 0

DaysInMonth(y, m) ==
  IF m = 2 THEN (IF IsLeap(y) THEN 29 ELSE 28)
  ELSE IF m \in {4, 6, 9, 11} THEN 30 ELSE 31

\* the datetime constructor's range check on the parsed fields
DateFieldsOk(f) ==
  /\ f.Y \in 1..9999
  /\ f.d <= DaysInMonth(f.Y, f.m)
  /\ f.S <= 59

SetField(f, item, v) ==
  CASE item = "%Y" -> [f EXCEPT !.Y = v]
    [] item = "%m" -> [f EXCEPT !.m = v]
    [] item = "%d" -> [f EXCEPT !.d = v]
    [] item = "%S" -> [f EXCEPT !.S = v]
    [] OTHER -> f

RECURSIVE StrptimeFrom(_, _, _, _, _)
\* whether cs from position i matches fmt from item j onwards, with the
\* fields read so far in f, and the whole denotes a date
StrptimeFrom(cs, i, fmt, j, f) ==
  IF j > Len(fmt) THEN i = Len(cs) + 1 /\ DateFieldsOk(f)
  ELSE IF IsDirective(fmt[j])
  THEN \/ \E w \in DirectiveWidths(fmt[j]) :
            /\ i + w - 1 <= Len(cs)
            /\ AllDigits(SubSeq(cs, i, i + w - 1))
            /\ DirectiveOk(fmt[j], SubSeq(cs, i, i + w - 1))
            /\ StrptimeFrom(cs, i + w, fmt, j + 1,
                            SetField(f, fmt[j], DigitsVal(SubSeq(cs, i, i + w - 1))))
       \* %d also reads a day padded with a blank, " 1" to " 9"
       \/ /\ fmt[j] = "%d"
          /\ i + 1 <= Len(cs)
          /\ cs[i] = " "
          /\ IsDigit(cs[i + 1]) /\ cs[i + 1] # "0"
          /\ StrptimeFrom(cs, i + 2, fmt, j + 1, SetField(f, fmt[j], DigitVal(cs[i + 1])))
  ELSE IF fmt[j] = " "
  THEN \E w \in 1..Len(cs) :
         /\ i + w - 1 <= Len(cs)
         /\ \A q \in i..(i + w - 1) : cs[q] = " "
         /\ StrptimeFrom(cs, i + w, fmt, j + 1, f)
  ELSE /\ i <= Len(cs)
       /\ LowerChar(cs[i]) = LowerChar(fmt[j])
       /\ StrptimeFrom(cs, i + 1, fmt, j + 1, f)

\* datetime.strptime(value, fmt) returns (TRUE) or raises ValueError (FALSE)
Strptime(cs, fmt) == StrptimeFrom(cs, 1, fmt, 1, [Y |-> 1900, m |-> 1, d |-> 1, S |-> 0])

-----------------------------------------------------------------------------
(* re.match, for patterns of literals, '.', '\d', '^' and '$' *)

\* re.compile raises re.error: a '[' that no ']' closes
RegexInvalid(p) ==
  \E i \in 1..Len(p) : p[i] = "[" /\ ~\E j \in (i + 1)..Len(p) : p[j] = "]"

RECURSIVE ReMatchFrom(_, _, _, _)
\* whether pattern p from item j matches s at position i (anchored there)
ReMatchFrom(p, j, s, i) ==
  IF j > Len(p) THEN TRUE
  ELSE IF p[j] = "^" THEN i = 1 /\ ReMatchFrom(p, j + 1, s, i)
  ELSE IF p[j] = "$" THEN i = Len(s) + 1 /\ ReMatchFrom(p, j + 1, s, i)
  ELSE IF p[j] = "\\"
  THEN /\ j + 1 <= Len(p) /\ p[j + 1] = "d"
       /\ i <= Len(s) /\ IsDigit(s[i])
       /\ ReMatchFrom(p, j + 2, s, i + 1)
  ELSE IF p[j] = "."
  THEN i <= Len(s) /\ ReMatchFrom(p, j + 1, s, i + 1)
  ELSE i <= Len(s) /\ s[i] = p[j] /\ ReMatchFrom(p, j + 1, s, i + 1)

\* re.match(pattern, string): the match starts at the start of the string
ReMatch(p, s) == ReMatchFrom(p, 1, s, 1)

-----------------------------------------------------------------------------
(* text of the messages *)

RECURSIVE Cat(_)
\* the text a sequence of characters (or of name parts) spells
Cat(cs) == IF cs = <<>> THEN "" ELSE cs[1] \o Cat(Tail(cs))

RECURSIVE Join(_, _)
\* sep.join(parts)
Join(parts, sep) ==
  IF parts = <<>> THEN ""
  ELSE IF Len(parts) = 1 THEN parts[1]
  ELSE parts[1] \o sep \o Join(Tail(parts), sep)

\* type(value).__name__
TypeName(value) ==
  IF value.k = "None" THEN "NoneType"
  ELSE IF value.k = "bigint" THEN "int"
  ELSE value.k

\* str(e) of the exception float(value) raises
FloatError(value) ==
  IF value.k = "str"
  THEN "could not convert string to float: '" \o Cat(value.s) \o "'"
  ELSE "float() argument must be a string or a real number, not '"
         \o TypeName(value) \o "'"

-----------------------------------------------------------------------------
(* validate_field_type *)

BooleanStrings ==
  { <<"t","r","u","e">>, <<"f","a","l","s","e">>, <<"y","e","s">>,
    <<"n","o">>, <<"1">>, <<"0">> }

TypeString == <<"s","t","r","i","n","g">>
TypeNumber == <<"n","u","m","b","e","r">>
TypeDate == <<"d","a","t","e">>
TypeBoolean == <<"b","o","o","l","e","a","n">>
TypeEnum == <<"e","n","u","m">>

\* the outcome of validate_field_type: the tuple (ok, reason), or exc raised
TypeOutcome(ok, reason) == [exc |-> "", ok |-> ok, reason |-> reason]

TypeRaise(e) == [exc |-> e, ok |-> FALSE, reason |-> ""]

\* the formats, by index, that parse cs
ParsedBy(cs) == {i \in 1..Len(date_formats) : Strptime(cs, date_formats[i])}

\* the loop over date_formats returns at the first format that parses
DateOutcome(parsing) ==
  IF parsing # {}
  THEN TypeOutcome(TRUE, "Valid date (format: "
                           \o Cat(date_formats[CHOOSE i \in parsing : \A h \in parsing : i <= h])
                           \o ")")
  ELSE TypeOutcome(FALSE, "Date format not recognized")

validate_field_type(value, field_type) ==
  IF value.k = "None" THEN TypeOutcome(FALSE, "Value is required")
  \* field_type.lower() of a tag that is no str: AttributeError, which the
  \* except (ValueError, TypeError) clause does not catch
  ELSE IF field_type.k # "str" THEN TypeRaise("AttributeError")
  ELSE LET t == Lower(field_type.s) IN
    IF t = TypeString
    THEN IF value.k # "str"
         THEN TypeOutcome(FALSE, "Expected string, got " \o TypeName(value))
         ELSE TypeOutcome(TRUE, "Valid string")
    ELSE IF t = TypeNumber
    THEN IF Float(value).exc = ""
         THEN TypeOutcome(TRUE, "Valid number")
         ELSE TypeOutcome(FALSE, "Validation failed: " \o FloatError(value))
    ELSE IF t = TypeDate
    THEN IF value.k = "str"
         THEN DateOutcome(ParsedBy(value.s))
         ELSE TypeOutcome(FALSE, "Expected date string, got " \o TypeName(value))
    ELSE IF t = TypeBoolean
    THEN IF value.k = "bool" THEN TypeOutcome(TRUE, "Valid boolean")
         ELSE IF value.k = "str" /\ Lower(value.s) \in BooleanStrings
              THEN TypeOutcome(TRUE, "Valid boolean string")
         ELSE TypeOutcome(FALSE, "Expected boolean, got " \o TypeName(value))
    ELSE IF t = TypeEnum
    THEN TypeOutcome(TRUE, "Enum type needs template validation")
    ELSE TypeOutcome(FALSE, "Unknown field type: " \o Cat(field_type.s))

-----------------------------------------------------------------------------
(* validate_against_template *)

\* key in d, for a dict d
DictHas(d, key) == \E i \in 1..Len(d) : d[i][1] = key

\* d[key]
DictGet(d, key) == d[CHOOSE i \in 1..Len(d) : d[i][1] = key][2]

\* the keys of d, in order
DictKeys(d) == [i \in 1..Len(d) |-> d[i][1]]

\* d after d[key] = v: an old key keeps its place, a new one goes last
DictPut(d, key, v) ==
  IF DictHas(d, key)
  THEN [i \in 1..Len(d) |-> IF d[i][1] = key THEN <<key, v>> ELSE d[i]]
  ELSE Append(d, <<key, v>>)

\* the validation result returned
Result(is_valid, confidence, reasoning, suggested_correction) ==
  [exc |-> "", is_valid |-> is_valid, confidence |-> confidence,
   reasoning |-> reasoning, suggested_correction |-> suggested_correction]

\* the call raises e and returns nothing
Raise(e) ==
  [exc |-> e, is_valid |-> FALSE, confidence |-> "Low",
   reasoning |-> <<>>, suggested_correction |-> PyNone]

\* the number num_value prints as (a float: digits and ".0")
FloatText(num) ==
  Cat(Str(IF num.big THEN PyBigInt(num.n) ELSE PyInt(num.n))) \o ".0"

\* EnumMember comparing the value with the options as they are, not as text
EnumMemberRaw(value, enum_values, reasoning) ==
    IF \A i \in 1..Len(enum_values) : enum_values[i] # value
    THEN Result(FALSE, "Low", Append(reasoning, "not in allowed values"),
                IF enum_values # <<>> THEN enum_values[1] ELSE PyNone)
    ELSE Result(TRUE, "High", reasoning, PyNone)

\* the enum branch, for the list enum_values
EnumMember(value, enum_values, reasoning) ==
    IF \A i \in 1..Len(enum_values) : Str(enum_values[i]) # Str(value)
    THEN Result(FALSE, "Low",
                Append(reasoning,
                       "Value '" \o Cat(Str(value)) \o "' not in allowed values: "
                         \o Join([i \in 1..Len(enum_values) |-> Cat(Str(enum_values[i]))], ", ")),
                IF enum_values # <<>> THEN enum_values[1] ELSE PyNone)
    ELSE Result(TRUE, "High", reasoning, PyNone)

\* the enum branch; reasoning holds the entries made so far
EnumCheck(value, field_def, reasoning) ==
  IF field_def.options.k \notin {"absent", "list"} THEN Raise("TypeError")
  ELSE EnumMember(value, field_def.options.items, reasoning)


\* the bound checks of the number branch on num_value = float(value)
NumberBounds(num_value, field_def, reasoning) ==
  IF field_def.min.k # "absent" /\ ~IsNumber(field_def.min) THEN Raise("TypeError")
  ELSE IF field_def.min.k # "absent" /\ Less(num_value, NumOf(field_def.min))
  THEN Result(FALSE, "Low",
              Append(reasoning, "Value " \o FloatText(num_value) \o " is below minimum "
                                  \o Cat(Str(field_def.min))),
              field_def.min)
  ELSE IF field_def.max.k # "absent" /\ ~IsNumber(field_def.max) THEN Raise("TypeError")
  ELSE IF field_def.max.k # "absent" /\ Less(NumOf(field_def.max), num_value)
  THEN Result(FALSE, "Low",
              Append(reasoning, "Value " \o FloatText(num_value) \o " is above maximum "
                                  \o Cat(Str(field_def.max))),
              field_def.max)
  ELSE Result(TRUE, "High", reasoning, PyNone)

\* the number branch
NumberCheck(value, field_def, reasoning) ==
  NumberBounds(Float(value), field_def, reasoning)


\* StringShape reporting a length violation as Low
StringShapeLow(str_value, field_def, reasoning) ==
  IF field_def.min_length.k # "absent" /\ ~IsNumber(field_def.min_length)
  THEN Raise("TypeError")
  ELSE IF field_def.min_length.k # "absent" /\ Less(Num(FALSE, Len(str_value)), NumOf(field_def.min_length))
  THEN Result(FALSE, "Low", Append(reasoning, "String is too short"), PyNone)
  ELSE IF field_def.max_length.k # "absent" /\ ~IsNumber(field_def.max_length)
  THEN Raise("TypeError")
  ELSE IF field_def.max_length.k # "absent" /\ Less(NumOf(field_def.max_length), Num(FALSE, Len(str_value)))
  THEN Result(FALSE, "Low", Append(reasoning, "String is too long"), PyNone)
  ELSE IF field_def.pattern.k = "absent" THEN Result(TRUE, "High", reasoning, PyNone)
  ELSE IF field_def.pattern.k # "str" THEN Raise("TypeError")
  ELSE IF RegexInvalid(field_def.pattern.s) THEN Raise("re.error")
  ELSE IF ~ReMatch(field_def.pattern.s, str_value)
  THEN Result(FALSE, "Medium", Append(reasoning, "String does not match"), PyNone)
  ELSE Result(TRUE, "High", reasoning, PyNone)

\* the length and pattern checks of the string branch on str_value
StringShape(str_value, field_def, reasoning) ==
  IF field_def.min_length.k # "absent" /\ ~IsNumber(field_def.min_length)
  THEN Raise("TypeError")
  ELSE IF field_def.min_length.k # "absent" /\ Less(Num(FALSE, Len(str_value)), NumOf(field_def.min_length))
  THEN Result(FALSE, "Medium",
              Append(reasoning, "String is too short (min "
                                  \o Cat(Str(field_def.min_length)) \o " characters)"),
              PyNone)
  ELSE IF field_def.max_length.k # "absent" /\ ~IsNumber(field_def.max_length)
  THEN Raise("TypeError")
  ELSE IF field_def.max_length.k # "absent" /\ Less(NumOf(field_def.max_length), Num(FALSE, Len(str_value)))
  THEN Result(FALSE, "Medium",
              Append(reasoning, "String is too long (max "
                                  \o Cat(Str(field_def.max_length)) \o " characters)"),
              PyNone)
  ELSE IF field_def.pattern.k = "absent" THEN Result(TRUE, "High", reasoning, PyNone)
  ELSE IF field_def.pattern.k # "str" THEN Raise("TypeError")
  ELSE IF RegexInvalid(field_def.pattern.s) THEN Raise("re.error")
  ELSE IF ~ReMatch(field_def.pattern.s, str_value)
  THEN Result(FALSE, "Medium",
              Append(reasoning, "String does not match expected pattern: "
                                  \o Cat(field_def.pattern.s)),
              PyNone)
  ELSE Result(TRUE, "High", reasoning, PyNone)

\* the string branch
StringCheck(value, field_def, reasoning) ==
  StringShape(Str(value), field_def, reasoning)


\* template.get('fields', {})
TemplateFields(template) == IF template.hasFields THEN template.fields ELSE <<>>

\* field_def.get('type', 'string')
FieldType(field_def) ==
  IF field_def.type.k = "absent" THEN PyStr(TypeString) ELSE field_def.type

\* the steps after validate_field_type gave checked: its reason is recorded,
\* a failure returns, and the checks of the field's type follow
TypedChecks(value, field_def, checked) ==
  IF checked.exc # "" THEN Raise(checked.exc)
  ELSE IF ~checked.ok
  THEN Result(FALSE, "Low", <<"Type validation: " \o checked.reason>>, PyNone)
  ELSE IF Lower(FieldType(field_def).s) = TypeEnum
  THEN EnumCheck(value, field_def, <<"Type validation: " \o checked.reason>>)
  ELSE IF Lower(FieldType(field_def).s) = TypeNumber
  THEN NumberCheck(value, field_def, <<"Type validation: " \o checked.reason>>)
  ELSE IF Lower(FieldType(field_def).s) = TypeString
  THEN StringCheck(value, field_def, <<"Type validation: " \o checked.reason>>)
  ELSE Result(TRUE, "High", <<"Type validation: " \o checked.reason>>, PyNone)

\* ValidateDeclared validating the type before it looks for an empty value
ValidateDeclaredTypeFirst(value, field_def) ==
  IF ~field_def.isdict THEN Raise("AttributeError")
  ELSE IF Truthy(field_def.required) /\ IsEmpty(value)
  THEN Result(FALSE, "Low", <<"Required field is missing or empty">>, PyNone)
  ELSE IF validate_field_type(value, FieldType(field_def)).exc = ""
          /\ ~validate_field_type(value, FieldType(field_def)).ok
  THEN Result(FALSE, "Low", <<"Type validation failed">>, PyNone)
  ELSE IF IsEmpty(value)
  THEN Result(TRUE, "High", <<"Optional field is empty">>, PyNone)
  ELSE TypedChecks(value, field_def, validate_field_type(value, FieldType(field_def)))

\* ValidateDeclared without the check of a required field's empty value
ValidateDeclaredNoRequired(value, field_def) ==
  IF ~field_def.isdict THEN Raise("AttributeError")
  ELSE IF IsEmpty(value)
  THEN Result(TRUE, "High", <<"Optional field is empty">>, PyNone)
  ELSE TypedChecks(value, field_def, validate_field_type(value, FieldType(field_def)))

\* the steps for a field the template declares with field_def
ValidateDeclared(value, field_def) ==
  \* field_def.get of an entry that is no dict: AttributeError
  IF ~field_def.isdict THEN Raise("AttributeError")
  ELSE IF Truthy(field_def.required) /\ IsEmpty(value)
  THEN Result(FALSE, "Low", <<"Required field is missing or empty">>, PyNone)
  ELSE IF IsEmpty(value)
  THEN Result(TRUE, "High", <<"Optional field is empty">>, PyNone)
  ELSE TypedChecks(value, field_def, validate_field_type(value, FieldType(field_def)))

validate_against_template(field_name, value, template) ==
  IF ~DictHas(TemplateFields(template), field_name)
  THEN Result(FALSE, "Low", <<"Field '" \o Cat(field_name) \o "' not found in template">>, PyNone)
  ELSE ValidateDeclared(value, DictGet(template.fields, field_name))

-----------------------------------------------------------------------------
(* enhance_confidence_with_template *)

\* field_name.startswith('_')
StartsWithUnderscore(field_name) == field_name # <<>> /\ field_name[1] = "_"

\* the enhanced result of a validated field; suggested_correction is a key
\* only when the validation gave one
EnhancedEntry(value, validation) ==
  [value |-> value,
   confidence |-> validation.confidence,
   reasoning |-> validation.reasoning,
   is_valid |-> validation.is_valid,
   suggested_correction |->
     IF validation.suggested_correction.k # "None"
     THEN validation.suggested_correction ELSE Absent]

\* the entry synthesized for a required field that has none
MissingEntry ==
  [value |-> PyNone, confidence |-> "Low",
   reasoning |-> <<"Required field is missing">>,
   is_valid |-> FALSE, suggested_correction |-> Absent]

\* whether the sweep synthesizes an entry for field_name
SweepAdds(field_name, field_def, enhanced) ==
  Truthy(field_def.required) /\ ~DictHas(enhanced, field_name)

RECURSIVE ProcessFields(_, _, _, _)
\* the loop body for item i once its validation is known
ProcessField(extracted_data, template, i, enhanced, validation) ==
  IF validation.exc # "" THEN [exc |-> validation.exc, results |-> enhanced]
  ELSE ProcessFields(extracted_data, template, i + 1,
                     DictPut(enhanced, extracted_data[i][1],
                             EnhancedEntry(extracted_data[i][2], validation)))

\* the loop over extracted_data.items() from item i, enhanced holding the
\* results so far: [exc, results]
ProcessFields(extracted_data, template, i, enhanced) ==
  IF i > Len(extracted_data) THEN [exc |-> "", results |-> enhanced]
  ELSE IF StartsWithUnderscore(extracted_data[i][1])
  THEN ProcessFields(extracted_data, template, i + 1, enhanced)
  ELSE ProcessField(extracted_data, template, i, enhanced,
                    validate_against_template(extracted_data[i][1],
                                              extracted_data[i][2], template))

RECURSIVE SweepRequired(_, _, _)
\* the loop over template['fields'].items() from item i: [exc, results]
SweepRequired(fields, i, enhanced) ==
  IF i > Len(fields) THEN [exc |-> "", results |-> enhanced]
  \* field_def.get of an entry that is no dict: AttributeError
  ELSE IF ~fields[i][2].isdict THEN [exc |-> "AttributeError", results |-> enhanced]
  ELSE IF SweepAdds(fields[i][1], fields[i][2], enhanced)
  THEN SweepRequired(fields, i + 1, DictPut(enhanced, fields[i][1], MissingEntry))
  ELSE SweepRequired(fields, i + 1, enhanced)

\* [exc, results]: the mapping returned, or the exception raised
\* the steps after the loop over the extracted data gave processed
AfterFields(processed, template) ==
  IF processed.exc # "" THEN processed
  ELSE IF template.hasFields THEN SweepRequired(template.fields, 1, processed.results)
  ELSE processed

enhance_confidence_with_template(extracted_data, template) ==
  AfterFields(ProcessFields(extracted_data, template, 1, <<>>), template)

-----------------------------------------------------------------------------
(* calculate_overall_confidence *)

\* confidence_counts[level] after the counting loop
CountOf(enhanced_results, level) ==
  Cardinality({i \in 1..Len(enhanced_results) : enhanced_results[i][2].confidence = level})

\* a quotient a / b and a decimal literal, as fractions [num, den]
Quotient(a, b) == [num |-> a, den |-> b]

FracAdd(x, y) == [num |-> x.num * y.den + y.num * x.den, den |-> x.den * y.den]

\* x >= y, for fractions of positive denominator
FracGe(x, y) == x.num * y.den >= y.num * x.den

HighThreshold == Quotient(7, 10)

MediumThreshold == Quotient(6, 10)

\* OverallOf with thresholds that must be exceeded
OverallOfStrict(high_pct, medium_pct) ==
  IF ~FracGe(HighThreshold, high_pct) THEN "High"
  ELSE IF ~FracGe(MediumThreshold, FracAdd(high_pct, medium_pct)) THEN "Medium"
  ELSE "Low"

\* OverallOf testing the Medium threshold on medium_pct alone
OverallOfMediumAlone(high_pct, medium_pct) ==
  IF FracGe(high_pct, HighThreshold) THEN "High"
  ELSE IF FracGe(medium_pct, MediumThreshold) THEN "Medium"
  ELSE "Low"

\* the policy on high_pct and medium_pct
OverallOf(high_pct, medium_pct) ==
  IF FracGe(high_pct, HighThreshold) THEN "High"
  ELSE IF FracGe(FracAdd(high_pct, medium_pct), MediumThreshold) THEN "Medium"
  ELSE "Low"

calculate_overall_confidence(enhanced_results) ==
  IF enhanced_results = <<>> THEN "Low"
  ELSE OverallOf(Quotient(CountOf(enhanced_results, "High"), Len(enhanced_results)),
                 Quotient(CountOf(enhanced_results, "Medium"), Len(enhanced_results)))

-----------------------------------------------------------------------------
(* format_confidence_results *)

ConfidenceSuffix == <<"_", "confidence">>

ReasoningSuffix == <<"_", "reasoning">>

OverallKey == <<"_", "overall", "_", "confidence">>

\* a confidence level as the Python str it is
ConfidenceValue(level) ==
  CASE level = "High" -> PyStr(<<"H","i","g","h">>)
    [] level = "Medium" -> PyStr(<<"M","e","d","i","u","m">>)
    [] level = "Low" -> PyStr(<<"L","o","w">>)
    [] OTHER -> PyStr(<<level>>)

\* whether the loop emits <field>_reasoning for field_data
EmitsReasoning(field_data, include_reasoning) ==
  include_reasoning /\ field_data.reasoning # <<>>

\* formatted after the value and the confidence of a field are put
PutValue(field_name, field_data, formatted) ==
  DictPut(DictPut(formatted, field_name, field_data.value),
          field_name \o ConfidenceSuffix, ConfidenceValue(field_data.confidence))

\* formatted after the loop body for one field
FormatField(field_name, field_data, include_reasoning, formatted) ==
  IF EmitsReasoning(field_data, include_reasoning)
  THEN DictPut(PutValue(field_name, field_data, formatted),
               field_name \o ReasoningSuffix,
               PyStr(<<Join(field_data.reasoning, " ")>>))
  ELSE PutValue(field_name, field_data, formatted)

RECURSIVE FormatFields(_, _, _, _)
\* the loop over enhanced_results.items() from item i
FormatFields(enhanced_results, include_reasoning, i, formatted) ==
  IF i > Len(enhanced_results) THEN formatted
  ELSE FormatFields(enhanced_results, include_reasoning, i + 1,
                    FormatField(enhanced_results[i][1], enhanced_results[i][2],
                                include_reasoning, formatted))

format_confidence_results(enhanced_results, include_reasoning) ==
  DictPut(FormatFields(enhanced_results, include_reasoning, 1, <<>>),
          OverallKey,
          ConfidenceValue(calculate_overall_confidence(enhanced_results)))

-----------------------------------------------------------------------------
(* inputs: field names, values, field definitions *)

NameA == <<"a">>

NameInternal == <<"_", "x">>

NameAConfidence == <<"a", "_", "confidence">>

\* the field names of the templates and extracted data, in template order
FieldNames == <<NameA, NameInternal, NameAConfidence>>

NoOptions == [k |-> "absent", items |-> <<>>]

OptionList(items) == [k |-> "list", items |-> items]

\* options: 5, which is no sequence
OptionsInt == [k |-> "int", items |-> <<>>]

\* a template field entry that is a dict; Absent marks a key it lacks
FieldDef(type, required, options, min, max, min_length, max_length, pattern) ==
  [isdict |-> TRUE, type |-> type, required |-> required, options |-> options,
   min |-> min, max |-> max, min_length |-> min_length,
   max_length |-> max_length, pattern |-> pattern]

\* a template field entry that is no dict (a str)
NotADict ==
  [isdict |-> FALSE, type |-> Absent, required |-> Absent, options |-> NoOptions,
   min |-> Absent, max |-> Absent, min_length |-> Absent,
   max_length |-> Absent, pattern |-> Absent]

Open == PyStr(<<"o","p","e","n">>)

Closed == PyStr(<<"c","l","o","s","e","d">>)

\* the largest number among the values and the bounds of the inputs
MaxNum == 2

\* the longest length bound among the inputs
MaxLen == 2

\* the most fields the extracted data holds
MaxDataFields == 2

\* the most entries of a mapping given to calculate_overall_confidence
MaxOverallFields == 10

\* the field definitions of the templates of the pipeline runs
PipelineDefs ==
  << FieldDef(PyStr(TypeString), PyBool(TRUE), NoOptions, Absent, Absent,
              Absent, PyInt(MaxLen), Absent),
     FieldDef(PyStr(TypeNumber), Absent, NoOptions, PyInt(0), PyInt(MaxNum),
              Absent, Absent, Absent),
     FieldDef(PyStr(TypeEnum), PyBool(TRUE), OptionList(<<Open, Closed>>), Absent, Absent,
              Absent, Absent, Absent),
     FieldDef(PyStr(TypeNumber), Absent, NoOptions, PyStr(<<"x">>), Absent,
              Absent, Absent, Absent),
     NotADict >>

\* the values of the extracted data of the pipeline runs
PipelineValues ==
  { PyNone, PyStr(<<"a","b","c">>), PyInt(MaxNum + 1), Open }

RECURSIVE TemplateOf(_, _)
\* the fields dict holding FieldNames[i] with definition PipelineDefs[c[i]],
\* for the i from 1 to n with c[i] > 0
TemplateOf(c, n) ==
  IF n = 0 THEN <<>>
  ELSE IF c[n] = 0 THEN TemplateOf(c, n - 1)
  ELSE Append(TemplateOf(c, n - 1), <<FieldNames[n], PipelineDefs[c[n]]>>)

Templates ==
  { [hasFields |-> FALSE, fields |-> <<>>] } \cup
  { [hasFields |-> TRUE, fields |-> TemplateOf(c, Len(FieldNames))] :
      c \in [1..Len(FieldNames) -> 0..Len(PipelineDefs)] }

Range(seq) == {seq[i] : i \in 1..Len(seq)}

\* the dicts of at most MaxDataFields items, in every insertion order
ExtractedData ==
  { d \in UNION { [1..n -> Range(FieldNames) \X PipelineValues] : n \in 0..MaxDataFields } :
      \A i, j \in 1..Len(d) : i # j => d[i][1] # d[j][1] }

\* the declarations of 'type': none, string, String, number, date, boolean,
\* enum, an unknown name, and 5, which is no str
StringTypes == { Absent, PyStr(TypeString), PyStr(<<"S","t","r","i","n","g">>) }

NumberTypes == { PyStr(TypeNumber), PyStr(<<"N","U","M","B","E","R">>) }

EnumTypes == { PyStr(TypeEnum), PyStr(<<"E","n","u","m">>) }

OtherTypes == { PyStr(TypeDate), PyStr(TypeBoolean), PyStr(<<"f","o","o">>), PyInt(5) }

\* the declarations of 'required'
Requireds == { Absent, PyBool(TRUE), PyBool(FALSE) }

\* the declarations of 'options'
OptionsPool ==
  { NoOptions, OptionList(<<>>), OptionList(<<Open, Closed>>),
    OptionList(<<PyStr(<<"1">>), Open>>), OptionsInt }

\* the declarations of 'min' and 'max': none, a number up to MaxNum, 2^53, or
\* the str 'x'
NumberBoundsPool ==
  { Absent, PyStr(<<"x">>), PyBigInt(0) } \cup { PyInt(i) : i \in 0..MaxNum }

\* the declarations of 'min_length' and 'max_length'
LengthBoundsPool == { Absent, PyStr(<<"x">>) } \cup { PyInt(i) : i \in 0..MaxLen }

\* the declarations of 'pattern': none, 'a', '\d', '^a$', the invalid '[', and 5
PatternsPool ==
  { Absent, PyStr(<<"a">>), PyStr(<<"\\", "d">>), PyStr(<<"^", "a", "$">>),
    PyStr(<<"[">>), PyInt(5) }

\* the constraints of the other types that a definition carries along: none,
\* or every one of them
Extras ==
  { [options |-> NoOptions, min |-> Absent, max |-> Absent,
     min_length |-> Absent, max_length |-> Absent, pattern |-> Absent],
    [options |-> OptionList(<<Open, Closed>>), min |-> PyInt(1), max |-> PyInt(1),
     min_length |-> PyInt(1), max_length |-> PyInt(1), pattern |-> PyStr(<<"[">>)] }

\* the field definitions given to validate_against_template
ValidateDefs ==
  { FieldDef(t, r, x.options, x.min, x.max, lo, hi, p) :
      t \in StringTypes, r \in Requireds, x \in Extras,
      lo \in LengthBoundsPool, hi \in LengthBoundsPool, p \in PatternsPool }
  \cup
  { FieldDef(t, r, x.options, lo, hi, x.min_length, x.max_length, x.pattern) :
      t \in NumberTypes, r \in Requireds, x \in Extras,
      lo \in NumberBoundsPool, hi \in NumberBoundsPool }
  \cup
  { FieldDef(t, r, o, x.min, x.max, x.min_length, x.max_length, x.pattern) :
      t \in EnumTypes, r \in Requireds, x \in Extras, o \in OptionsPool }
  \cup
  { FieldDef(t, r, x.options, x.min, x.max, x.min_length, x.max_length, x.pattern) :
      t \in OtherTypes, r \in Requireds, x \in Extras }
  \cup { NotADict }

\* 'a' * n
As(n) == [i \in 1..n |-> "a"]

\* the values given to validate_against_template
ValidateValues ==
  { PyNone, PyStr(<<>>), PyList, PyBool(TRUE), PyBool(FALSE),
    Open, PyStr(<<"T","r","u","e">>), PyStr(<<"-","1">>),
    PyStr(<<"2","0","2","3","-","0","1","-","0","1">>),
    PyStr(<<"1","3","/","4","5","/","2","0","2","3">>) }
  \cup { PyInt(i) : i \in (0 - 1)..(MaxNum + 1) }
  \cup { PyBigInt(i) : i \in 0..MaxNum }
  \cup { PyStr(NatStr(i)) : i \in 0..(MaxNum + 1) }
  \cup { PyStr(As(i)) : i \in 1..(MaxLen + 1) }

\* an enhanced result of the given confidence
EntryOf(level) ==
  [value |-> PyNone, confidence |-> level, reasoning |-> <<>>,
   is_valid |-> level = "High", suggested_correction |-> Absent]

\* the mapping of h High, then m Medium, then l Low entries, then u entries
\* of a confidence that is none of the three
OverallInput(h, m, l, u) ==
  [i \in 1..(h + m + l + u) |->
     << <<"f">> \o NatStr(i),
        EntryOf(IF i <= h THEN "High"
                ELSE IF i <= h + m THEN "Medium"
                ELSE IF i <= h + m + l THEN "Low" ELSE "Unknown") >>]

OverallInputs ==
  { OverallInput(h, m, l, u) :
      h \in 0..MaxOverallFields, m \in 0..MaxOverallFields,
      l \in 0..MaxOverallFields, u \in 0..1 }

-----------------------------------------------------------------------------
(* the calls *)

-----------------------------------------------------------------------------
(* extract_structured_metadata (metadata_extraction.py) *)

\* the positional parameters of enhance_confidence_with_template
Parameters == <<"extracted_data", "template">>

\* str(e) of the TypeError of a call with more positional arguments than
\* parameters
TooManyArguments(given) ==
  "enhance_confidence_with_template() takes " \o Cat(NatStr(Len(Parameters)))
    \o " positional arguments but " \o Cat(NatStr(given)) \o " were given"

\* what enhance_confidence_with_template(*args) with as many arguments as
\* parameters does: [exc, msg, results]; msg stands for str(e) by the name of
\* the exception
Bound(r) == [exc |-> r.exc, msg |-> r.exc, results |-> r.results]

\* enhance_confidence_with_template(*args): Python binds the arguments to the
\* parameters before it runs the body, and raises TypeError when it cannot
CallEnhance(args) ==
  IF Len(args) = Len(Parameters)
  THEN Bound(enhance_confidence_with_template(args[1], args[2]))
  ELSE [exc |-> "TypeError", msg |-> TooManyArguments(Len(args)), results |-> <<>>]

\* the status of a response that carries the extraction
StatusOk == 200

\* response.reason of a status
Reason(status) == IF status = StatusOk THEN "OK" ELSE "Internal Server Error"

\* {'error': msg}, {'error': msg, 'details': text}
ErrorObject(msg) == [error |-> msg, hasDetails |-> FALSE, response |-> <<>>]

ErrorDetails(msg) == [error |-> msg, hasDetails |-> TRUE, response |-> <<>>]

\* the mapping the function returns when nothing failed
Extracted(response) == [error |-> "", hasDetails |-> FALSE, response |-> response]

\* _process_ai_response: a response with no dict under 'answer' (no value of
\* this model is a dict) has nothing to process and is returned itself
process_ai_response(response_data) ==
  IF DictHas(response_data, <<"answer">>) /\ DictGet(response_data, <<"answer">>).k = "dict"
  THEN <<>>
  ELSE response_data

\* bool(metadata_template): None and {} are false; a template of this model
\* has no key but 'fields'
TemplateGiven(metadata_template) == metadata_template.hasFields

\* the except clause around the call: an exception becomes {'error': str(e)}
EnhancedOrError(r) ==
  IF r.exc = "" THEN Extracted(r.results) ELSE ErrorObject(r.msg)

\* extract_structured_metadata, for a client with or without an access token
\* and a response of the given status and JSON body
extract_structured_metadata(access_token, status_code, response_data, metadata_template, document_text) ==
  IF ~access_token THEN ErrorObject("Could not retrieve access token from client")
  ELSE IF status_code # StatusOk
  THEN ErrorDetails("Error in Box AI API call: " \o Cat(NatStr(status_code))
                      \o " " \o Reason(status_code))
  ELSE IF TemplateGiven(metadata_template)
  THEN EnhancedOrError(CallEnhance(<<process_ai_response(response_data),
                                     metadata_template, document_text>>))
  ELSE Extracted(process_ai_response(response_data))

\* the status codes and the document texts of the calls
StatusCodes == {StatusOk, 500}

DocumentTexts == {"", "abc"}

VARIABLES
  template,          \* the template passed in
  extracted_data,    \* the extracted data passed in
  pc,                \* which call was made last
  exc,               \* the exception enhance_confidence_with_template raised, or ""
  enhanced_results,  \* what enhance_confidence_with_template returned
  rerun,             \* [exc, results] of enhancing the values of enhanced_results
  include_reasoning, \* the flag format_confidence_results was given
  formatted,         \* what format_confidence_results returned
  overall,           \* what calculate_overall_confidence returned, or ""
  call,              \* [field_name, value] given to validate_against_template
  validation,        \* what validate_against_template returned (exc: raised)
  again,             \* what the second call of the function called last returned
  request,           \* [access_token, status_code, document_text] of the extraction
  extraction         \* what extract_structured_metadata returned

vars == <<template, extracted_data, pc, exc, enhanced_results, rerun,
          include_reasoning, formatted, overall, call, validation, again,
          request, extraction>>

NoCall == [field_name |-> <<>>, value |-> PyNone]

NoValidation == Result(FALSE, "", <<>>, PyNone)

NoRerun == [exc |-> "", results |-> <<>>]

NoAgain == [exc |-> "", enhanced |-> <<>>, formatted |-> <<>>, overall |-> ""]

NoRequest == [access_token |-> FALSE, status_code |-> 0, document_text |-> ""]

Blank ==
  /\ pc = "start"
  /\ exc = ""
  /\ enhanced_results = <<>>
  /\ rerun = NoRerun
  /\ include_reasoning = FALSE
  /\ formatted = <<>>
  /\ overall = ""
  /\ call = NoCall
  /\ validation = NoValidation
  /\ again = NoAgain
  /\ request = NoRequest
  /\ extraction = Extracted(<<>>)

Init ==
  /\ template \in Templates
  /\ extracted_data \in ExtractedData
  /\ Blank

\* the call returned r.results, or raised r.exc
Outcome(r) ==
  /\ exc' = r.exc
  /\ enhanced_results' = IF r.exc = "" THEN r.results ELSE <<>>
  /\ pc' = IF r.exc = "" THEN "enhanced" ELSE "raised"

\* Outcome of a call whose sweep puts the required fields it finds missing
\* into the extracted data, with the value None
OutcomeInPlace(r) ==
  /\ Outcome(r)
  /\ extracted_data' =
       extracted_data \o
         SelectSeq([i \in 1..Len(r.results) |-> <<r.results[i][1], PyNone>>],
                   LAMBDA item : ~DictHas(extracted_data, item[1]))

\* Enhance writing into the extracted data it was given
EnhanceInPlace ==
  /\ pc = "start"
  /\ OutcomeInPlace(enhance_confidence_with_template(extracted_data, template))
  /\ UNCHANGED <<template, rerun, include_reasoning, formatted,
                 overall, call, validation, again,
                 request, extraction>>

\* enhanced = enhance_confidence_with_template(extracted_data, template)
Enhance ==
  /\ pc = "start"
  /\ Outcome(enhance_confidence_with_template(extracted_data, template))
  /\ UNCHANGED <<template, extracted_data, rerun, include_reasoning, formatted,
                 overall, call, validation, again,
                 request, extraction>>

\* {f: R[f]['value'] for f in R}
ValuesOf(results) == [i \in 1..Len(results) |-> <<results[i][1], results[i][2].value>>]

\* the values of the enhanced results fed back as extracted data
Reenhance ==
  /\ pc = "enhanced"
  /\ rerun' = enhance_confidence_with_template(ValuesOf(enhanced_results), template)
  /\ pc' = "reenhanced"
  /\ UNCHANGED <<template, extracted_data, exc, enhanced_results, include_reasoning,
                 formatted, overall, call, validation, again,
                 request, extraction>>

\* formatted = format_confidence_results(enhanced, include_reasoning)
Format ==
  /\ pc = "reenhanced"
  /\ \E flag \in BOOLEAN :
       /\ include_reasoning' = flag
       /\ formatted' = format_confidence_results(enhanced_results, flag)
  /\ pc' = "formatted"
  /\ UNCHANGED <<template, extracted_data, exc, enhanced_results, rerun,
                 overall, call, validation, again,
                 request, extraction>>

\* overall = calculate_overall_confidence(enhanced)
Overall ==
  /\ pc = "enhanced"
  /\ overall' = calculate_overall_confidence(enhanced_results)
  /\ pc' = "overall"
  /\ UNCHANGED <<template, extracted_data, exc, enhanced_results, rerun,
                 include_reasoning, formatted, call, validation, again,
                 request, extraction>>

\* validation = validate_against_template(field_name, value, template), for an
\* item of the extracted data
Validate ==
  /\ pc = "start"
  /\ \E i \in 1..Len(extracted_data) :
       /\ call' = [field_name |-> extracted_data[i][1], value |-> extracted_data[i][2]]
       /\ validation' = validate_against_template(extracted_data[i][1],
                                                  extracted_data[i][2], template)
  /\ pc' = "validated"
  /\ UNCHANGED <<template, extracted_data, exc, enhanced_results, rerun,
                 include_reasoning, formatted, overall, again,
                 request, extraction>>

\* the second call returned r.results, or raised r.exc
SecondEnhance(r) ==
  [NoAgain EXCEPT !.exc = r.exc, !.enhanced = IF r.exc = "" THEN r.results ELSE <<>>]

\* the function called last, called once more with the same arguments, as
\* they are after the first call
Again ==
  /\ pc \in {"enhanced", "raised", "formatted", "overall"}
  /\ again' =
       IF pc \in {"enhanced", "raised"}
       THEN SecondEnhance(enhance_confidence_with_template(extracted_data, template))
       ELSE IF pc = "formatted"
       THEN [NoAgain EXCEPT !.formatted =
                              format_confidence_results(enhanced_results, include_reasoning)]
       ELSE [NoAgain EXCEPT !.overall = calculate_overall_confidence(enhanced_results)]
  /\ pc' = pc \o "_again"
  /\ UNCHANGED <<template, extracted_data, exc, enhanced_results, rerun,
                 include_reasoning, formatted, overall, call, validation,
                 request, extraction>>

\* extraction = extract_structured_metadata(client, file_id, None, template,
\* ai_model, document_text), the extracted data being the response's JSON body
Extract ==
  /\ pc = "start"
  /\ \E access_token \in BOOLEAN, status_code \in StatusCodes,
        document_text \in DocumentTexts :
       /\ request' = [access_token |-> access_token, status_code |-> status_code,
                      document_text |-> document_text]
       /\ extraction' = extract_structured_metadata(access_token, status_code,
                           extracted_data, template, document_text)
  /\ pc' = "extracted"
  /\ UNCHANGED <<template, extracted_data, exc, enhanced_results, rerun,
                 include_reasoning, formatted, overall, call, validation, again>>

Next == Enhance \/ Reenhance \/ Format \/ Overall \/ Validate \/ Again \/ Extract

Spec == Init /\ [][Next]_vars

\* validate_against_template alone, on one field, over every field definition
InitValidate ==
  /\ template \in
       { [hasFields |-> FALSE, fields |-> <<>>] } \cup
       { [hasFields |-> TRUE, fields |-> << <<NameA, d>> >>] : d \in ValidateDefs }
  /\ extracted_data \in
       { << <<name, v>> >> : name \in {NameA, NameInternal}, v \in ValidateValues }
  /\ Blank

SpecValidate == InitValidate /\ [][Validate]_vars

\* calculate_overall_confidence alone, over mappings of every mix of levels
InitOverall ==
  /\ template = [hasFields |-> FALSE, fields |-> <<>>]
  /\ extracted_data = <<>>
  /\ pc = "enhanced"
  /\ exc = ""
  /\ enhanced_results \in
       { r \in OverallInputs : Len(r) <= MaxOverallFields }
  /\ rerun = NoRerun
  /\ include_reasoning = FALSE
  /\ formatted = <<>>
  /\ overall = ""
  /\ call = NoCall
  /\ validation = NoValidation
  /\ again = NoAgain
  /\ request = NoRequest
  /\ extraction = Extracted(<<>>)

SpecOverall == InitOverall /\ [][Overall]_vars

-----------------------------------------------------------------------------
(* the claims about the pipeline, checked under Spec *)

\* whether enhance_confidence_with_template has returned
Enhanced == pc \in {"enhanced", "reenhanced", "formatted", "overall"}

\* the template's fields (none when the template has no 'fields' key)
Declared == TemplateFields(template)

\* C1: enhance_confidence_with_template and validate_against_template never
\* raise: for every template and extracted data, malformed ones included,
\* the call returns.
C1_NeverRaises == pc # "raised" /\ validation.exc = ""

\* C2: no key of the enhanced results begins with an underscore, and the only
\* formatted key that does is _overall_confidence, also when the template
\* declares a required field whose name begins with an underscore.
C2_NoInternalKeys ==
  /\ Enhanced =>
       \A i \in 1..Len(enhanced_results) : ~StartsWithUnderscore(enhanced_results[i][1])
  /\ pc = "formatted" =>
       \A i \in 1..Len(formatted) :
         StartsWithUnderscore(formatted[i][1]) => formatted[i][1] = OverallKey

\* C3: every required template field has an entry in the enhanced results, and
\* the synthesized missing-field entry is the entry of exactly those required
\* fields whose name is no key of the extracted data.
C3_SynthesizedIffAbsent ==
  Enhanced =>
    \A i \in 1..Len(Declared) :
      Truthy(Declared[i][2].required) =>
        /\ DictHas(enhanced_results, Declared[i][1])
        /\ (DictGet(enhanced_results, Declared[i][1]) = MissingEntry)
             <=> ~DictHas(extracted_data, Declared[i][1])

\* the fields of the enhanced results whose reasoning is emitted
WithReasoning ==
  {i \in 1..Len(enhanced_results) :
     EmitsReasoning(enhanced_results[i][2], include_reasoning)}

\* C5: the formatted mapping has 2*n + r + 1 keys for n fields of which r have
\* emitted reasoning, and for every field f formatted[f] is f's value and
\* formatted[f + "_confidence"] is f's confidence, whatever the field names.
C5_Reconstructible ==
  pc = "formatted" =>
    /\ Len(formatted) = 2 * Len(enhanced_results) + Cardinality(WithReasoning) + 1
    /\ \A i \in 1..Len(enhanced_results) :
         /\ DictHas(formatted, enhanced_results[i][1])
         /\ DictGet(formatted, enhanced_results[i][1]) = enhanced_results[i][2].value
         /\ DictHas(formatted, enhanced_results[i][1] \o ConfidenceSuffix)
         /\ DictGet(formatted, enhanced_results[i][1] \o ConfidenceSuffix)
              = ConfidenceValue(enhanced_results[i][2].confidence)

\* C6: enhancing the values of the enhanced results against the same template
\* returns the same field names and, for every field, the same is_valid and
\* the same confidence, the fields synthesized as missing included.
C6_Idempotent ==
  pc \in {"reenhanced", "formatted"} =>
    /\ rerun.exc = ""
    /\ Range(DictKeys(rerun.results)) = Range(DictKeys(enhanced_results))
    /\ \A i \in 1..Len(enhanced_results) :
         /\ DictHas(rerun.results, enhanced_results[i][1])
         /\ DictGet(rerun.results, enhanced_results[i][1]).is_valid
              = enhanced_results[i][2].is_valid
         /\ DictGet(rerun.results, enhanced_results[i][1]).confidence
              = enhanced_results[i][2].confidence

\* a rerun over results that hold a synthesized entry, a valid entry of a
\* non-empty value, and an invalid entry of a non-empty value
C6_Witness ==
  /\ pc = "reenhanced"
  /\ \E i \in 1..Len(enhanced_results) : enhanced_results[i][2] = MissingEntry
  /\ \E i \in 1..Len(enhanced_results) :
       enhanced_results[i][2].is_valid /\ ~IsEmpty(enhanced_results[i][2].value)
  /\ \E i \in 1..Len(enhanced_results) :
       ~enhanced_results[i][2].is_valid /\ ~IsEmpty(enhanced_results[i][2].value)

-----------------------------------------------------------------------------
(* the claim about calculate_overall_confidence, checked under SpecOverall *)

\* the entries of the mapping given that have the confidence level
Having(level) ==
  Cardinality({i \in 1..Len(enhanced_results) : enhanced_results[i][2].confidence = level})

\* C4: calculate_overall_confidence returns Low for an empty mapping, and for a
\* mapping of N > 0 entries, H of them High and M Medium, High iff
\* 10*H >= 7*N, otherwise Medium iff 10*(H+M) >= 6*N, otherwise Low.
C4_OverallPolicy ==
  pc = "overall" =>
    /\ Len(enhanced_results) = 0 => overall = "Low"
    /\ Len(enhanced_results) > 0 =>
         /\ overall = "High" <=> 10 * Having("High") >= 7 * Len(enhanced_results)
         /\ overall = "Medium" <=>
              /\ 10 * Having("High") < 7 * Len(enhanced_results)
              /\ 10 * (Having("High") + Having("Medium")) >= 6 * Len(enhanced_results)
         /\ overall = "Low" <=>
              /\ 10 * Having("High") < 7 * Len(enhanced_results)
              /\ 10 * (Having("High") + Having("Medium")) < 6 * Len(enhanced_results)
    /\ enhanced_results = OverallInput(4, 0, 1, 0) => overall = "High"
    /\ enhanced_results = OverallInput(1, 2, 2, 0) => overall = "Medium"
    /\ enhanced_results = OverallInput(0, 0, 3, 0) => overall = "Low"

\* the overall confidence of 7 High among 10 entries, the threshold itself
C4_Witness ==
  /\ pc = "overall"
  /\ enhanced_results = OverallInput(7, 0, 3, 0)
  /\ overall = "High"

-----------------------------------------------------------------------------
(* the claims about validate_against_template, checked under SpecValidate *)

\* validate_against_template has returned a result
Returned == pc = "validated" /\ validation.exc = ""

\* the template declares the field of the call, with a dict
IsDeclared ==
  /\ DictHas(Declared, call.field_name)
  /\ DictGet(Declared, call.field_name).isdict

\* the definition of the field of the call
TheDef == DictGet(Declared, call.field_name)

\* the field of the call has the type t (a lower-case name), declared in any
\* case, or by default when t is string
HasType(t) ==
  /\ IsDeclared
  /\ FieldType(TheDef).k = "str"
  /\ Lower(FieldType(TheDef).s) = t

\* the number the value of the call is: an int or a bool itself, a str the
\* number its digits denote
TheNumber == IF IsNumber(call.value) THEN NumOf(call.value) ELSE Float(call.value)

\* the value of the call is below the declared min, above the declared max
BelowMin ==
  /\ TheDef.min.k # "absent" /\ IsNumber(TheDef.min)
  /\ Less(TheNumber, NumOf(TheDef.min))

AboveMax ==
  /\ TheDef.max.k # "absent" /\ IsNumber(TheDef.max)
  /\ Less(NumOf(TheDef.max), TheNumber)

\* C7: for a field of type number and a non-empty value that passes the
\* numeric type validation, the result is invalid, Low, with the violated
\* bound as suggested correction (min before max), and valid, High, with no
\* suggested correction when no declared bound is violated.
C7_NumberBounds ==
  (Returned /\ HasType(TypeNumber) /\ ~IsEmpty(call.value) /\ Float(call.value).exc = "") =>
    /\ BelowMin =>
         /\ ~validation.is_valid /\ validation.confidence = "Low"
         /\ validation.suggested_correction = TheDef.min
    /\ (~BelowMin /\ AboveMax) =>
         /\ ~validation.is_valid /\ validation.confidence = "Low"
         /\ validation.suggested_correction = TheDef.max
    /\ (~BelowMin /\ ~AboveMax) =>
         /\ validation.is_valid /\ validation.confidence = "High"
         /\ validation.suggested_correction = PyNone

\* the declared options of the field of the call (none when undeclared)
TheOptions == TheDef.options.items

\* the text of the value of the call is the text of a declared option
IsOption == \E i \in 1..Len(TheOptions) : Str(TheOptions[i]) = Str(call.value)

\* C8: for a field of type enum and a non-empty value, validate_field_type
\* reports valid, and the result is valid, High iff the text of the value is
\* the text of a declared option; otherwise it is invalid, Low, and suggests
\* the first declared option, or nothing when there is none.
C8_EnumMembership ==
  (pc = "validated" /\ HasType(TypeEnum) /\ ~IsEmpty(call.value)
     /\ TheDef.options.k \in {"absent", "list"}) =>
    /\ validation.exc = ""
    /\ validate_field_type(call.value, FieldType(TheDef)).ok
    /\ validation.is_valid <=> IsOption
    /\ IsOption =>
         /\ validation.confidence = "High"
         /\ validation.suggested_correction = PyNone
    /\ ~IsOption =>
         /\ validation.confidence = "Low"
         /\ validation.suggested_correction =
              IF TheOptions # <<>> THEN TheOptions[1] ELSE PyNone

\* a value that is none of the declared options open and closed
C8_Witness ==
  /\ Returned /\ HasType(TypeEnum)
  /\ call.value = PyStr(As(1))
  /\ TheOptions = <<Open, Closed>>
  /\ ~validation.is_valid
  /\ validation.suggested_correction = Open

\* C9: for a null or empty-string value the result is invalid, Low ("not
\* found in template") when the template lacks the field, otherwise invalid,
\* Low ("Required field is missing or empty") when the field is required,
\* otherwise valid, High ("Optional field is empty") with no suggested
\* correction, whatever type and constraints the field declares.
C9_EmptyPrecedence ==
  (pc = "validated" /\ IsEmpty(call.value)) =>
    /\ ~DictHas(Declared, call.field_name) =>
         validation = Result(FALSE, "Low",
                             <<"Field '" \o Cat(call.field_name) \o "' not found in template">>,
                             PyNone)
    /\ (IsDeclared /\ Truthy(TheDef.required)) =>
         validation = Result(FALSE, "Low", <<"Required field is missing or empty">>, PyNone)
    /\ (IsDeclared /\ ~Truthy(TheDef.required)) =>
         validation = Result(TRUE, "High", <<"Optional field is empty">>, PyNone)

\* an empty string for an optional field of a type that rejects it, with an
\* invalid pattern declared
C9_Witness ==
  /\ pc = "validated" /\ call.value = PyStr(<<>>)
  /\ IsDeclared /\ ~Truthy(TheDef.required)
  /\ FieldType(TheDef) \in OtherTypes
  /\ TheDef.pattern = PyStr(<<"[">>)
  /\ validation.is_valid

\* the text of the value of the call violates the declared length bounds or
\* the declared pattern
TooShort ==
  /\ TheDef.min_length.k # "absent" /\ IsNumber(TheDef.min_length)
  /\ Less(Num(FALSE, Len(Str(call.value))), NumOf(TheDef.min_length))

TooLong ==
  /\ TheDef.max_length.k # "absent" /\ IsNumber(TheDef.max_length)
  /\ Less(NumOf(TheDef.max_length), Num(FALSE, Len(Str(call.value))))

Mismatch ==
  /\ TheDef.pattern.k = "str" /\ ~RegexInvalid(TheDef.pattern.s)
  /\ ~ReMatch(TheDef.pattern.s, Str(call.value))

\* C10: in every result, confidence is Medium exactly when the type is string,
\* the value is a non-empty string and it violates min_length, max_length or
\* pattern (reported in that order), and then the result is invalid with no
\* suggested correction; every other invalid result is Low; and is_valid is
\* true exactly when confidence is High.
C10_Tiers ==
  Returned =>
    /\ validation.confidence \in {"High", "Medium", "Low"}
    /\ validation.is_valid <=> validation.confidence = "High"
    /\ validation.confidence = "Medium" <=>
         /\ HasType(TypeString)
         /\ call.value.k = "str" /\ call.value.s # <<>>
         /\ TooShort \/ TooLong \/ Mismatch
    /\ validation.confidence = "Medium" =>
         /\ validation.suggested_correction = PyNone
         /\ Len(validation.reasoning) = 2
         /\ validation.reasoning[2] =
              IF TooShort
              THEN "String is too short (min " \o Cat(Str(TheDef.min_length)) \o " characters)"
              ELSE IF TooLong
              THEN "String is too long (max " \o Cat(Str(TheDef.max_length)) \o " characters)"
              ELSE "String does not match expected pattern: " \o Cat(TheDef.pattern.s)

\* a Medium result for a string that is too long
C10_Witness ==
  /\ Returned /\ validation.confidence = "Medium"
  /\ TooLong /\ ~TooShort

-----------------------------------------------------------------------------
(* the claim about the arguments of the calls, checked under Spec *)

-----------------------------------------------------------------------------
(* the claim about extract_structured_metadata, checked under Spec *)

\* the extraction returned the results r of a call that returned
ReturnsResultsOf(r) == r.exc = "" => extraction = Extracted(r.results)

\* C12: enhance_confidence_with_template takes the document text as a third
\* argument that does not change its result: when a template is given and the
\* extraction call succeeded, extract_structured_metadata returns what
\* enhance_confidence_with_template(extracted_data, template) returns, not
\* an error object.
C12_DocumentTextIgnored ==
  (pc = "extracted" /\ request.access_token /\ request.status_code = StatusOk
     /\ TemplateGiven(template)) =>
    ReturnsResultsOf(enhance_confidence_with_template(extracted_data, template))

-----------------------------------------------------------------------------
(* the claim about the order of the levels, checked under SpecOverall *)

\* Low < Medium < High
Rank(level) == CASE level = "High" -> 2 [] level = "Medium" -> 1 [] OTHER -> 0

Tiers == {"High", "Medium", "Low"}

\* the mapping given, with the confidence of its i-th entry set to level
WithTier(i, level) ==
  [enhanced_results EXCEPT ![i] = <<@[1], [@[2] EXCEPT !.confidence = level]>>]

\* every confidence of the mapping given is High, Medium or Low
AllTiers == \A i \in 1..Len(enhanced_results) : enhanced_results[i][2].confidence \in Tiers

\* C13: for a non-empty mapping of High, Medium and Low entries, raising one
\* entry to a higher level never lowers the overall confidence, and lowering
\* one never raises it.
C13_Monotone ==
  (pc = "overall" /\ enhanced_results # <<>> /\ AllTiers) =>
    \A i \in 1..Len(enhanced_results), level \in Tiers :
      /\ Rank(level) > Rank(enhanced_results[i][2].confidence) =>
           Rank(calculate_overall_confidence(WithTier(i, level))) >= Rank(overall)
      /\ Rank(level) < Rank(enhanced_results[i][2].confidence) =>
           Rank(calculate_overall_confidence(WithTier(i, level))) <= Rank(overall)

\* six High and four Low entries are Medium overall, and High once a Low
\* entry is raised to High
C13_Witness ==
  /\ pc = "overall"
  /\ enhanced_results = OverallInput(6, 0, 4, 0)
  /\ overall = "Medium"
  /\ calculate_overall_confidence(WithTier(7, "High")) = "High"

====
